---- MODULE Spec2Model ----
(***************************************************************************)
(* Seat attribution of Ecclesia-TS (src/src/election/attribution/*.ts).    *)
(*                                                                         *)
(* A Counter / Simple tally / seat mapping is a sequence of entries        *)
(* [p |-> party, v |-> count] in Map insertion order.  Candidates are      *)
(* opaque to the code (only compared for identity), so a tally of k        *)
(* parties is written over the first k names of Parties; every vector of   *)
(* counts, hence every position of a tie, is enumerated.                   *)
(*                                                                         *)
(* Numbers: the code computes in IEEE doubles.  The model computes the     *)
(* same quotients exactly, as fractions compared by cross-multiplication;  *)
(* NaN and Infinity are kept as separate values because the code's         *)
(* comparisons treat them specially.  Thresholds are dyadic (0, 1/2, 1),   *)
(* for which the double product threshold * total is exact.                *)
(***************************************************************************)
EXTENDS Integers, Sequences, FiniteSets, TLC

\* ---------------------------------------------------------------- bounds
MaxParties == 3
MaxVotes == 2
MaxSeats == 3
MaxBallots == 3
MaxScoreParties == 2
MaxGrades == 2
MaxQty == 1

Parties == <<"A", "B", "C", "D", "E">>
Thresholds == {<<0, 1>>, <<1, 2>>, <<1, 1>>}
Rests == {"undefined", "extras"}
Candidates == {"A", "B", "C"}

VARIABLES
    cfg,       \* the attribution the caller built (factory arguments)
    votes,     \* the tally the caller passes to it
    rest,      \* the second argument the caller passes
    pc,        \* "call": callee is about to run on arg; "loop"; "done"
    callee,    \* the attribution closure now running
    arg,       \* the tally it was called with
    argRest,   \* the second argument it was called with
    calls,     \* log of the delegated calls made so far
    result,    \* outcome of the top-level call, once pc = "done"
    parties,   \* proportionalFromRankIndexFunction: the sorted working list
    seats,     \* proportionalFromRankIndexFunction: seats awarded so far
    rankIndexValues, \* proportionalFromRankIndexFunction: party -> current score
    sn,        \* proportionalFromRankIndexFunction: loop counter
    blacklisted, \* instantRunoff: the eliminated parties
    pn,        \* instantRunoff: loop counter (rounds completed)
    bestSeats, \* boundedRankIndexMethod: the best allocation so far
    bestSeatsMetric, \* boundedRankIndexMethod: its metric
    randomParam, \* randomize: the generator arguments given to the factory
    randomObj, \* randomize: state of the generator last drawn from
    earlier,   \* one earlier call the caller remembers: its tally and outcome
    choicesOnZero, \* what the generator's choices does with weights that sum to 0
    tallyInput, \* Scores: the constructor the caller calls, and its arguments
    scoresObj, \* Scores: the object built
    got,       \* Scores: the last get(key): key, value returned, object before
    handed     \* the caller's tally object: its content now, and whether the
               \* running closure's argument is that object

vars == <<cfg, votes, rest, pc, callee, arg, argRest, calls, result,
          parties, seats, rankIndexValues, sn, blacklisted, pn,
          bestSeats, bestSeatsMetric,
          randomParam, randomObj, earlier, choicesOnZero,
          tallyInput, scoresObj, got, handed>>
tallyVars == <<tallyInput, scoresObj, got>>
\* what the caller holds; no attribution but randomize touches any of it
inputVars == <<cfg, votes, rest, randomParam, randomObj, earlier, choicesOnZero,
               tallyVars>>
loopVars == <<parties, seats, rankIndexValues, sn, blacklisted, pn,
              bestSeats, bestSeatsMetric>>

\* ------------------------------------------------------------ Counter
Entry(p, v) == [p |-> p, v |-> v]

Keys(m) == {m[i].p : i \in DOMAIN m}

Has(m, p) == \E i \in DOMAIN m : m[i].p = p

\* Counter.get: a missing key counts 0
Get(m, p) == IF Has(m, p) THEN (CHOOSE e \in {m[i] : i \in DOMAIN m} : e.p = p).v ELSE 0

RECURSIVE SumFrom(_, _)
SumFrom(m, i) == IF i > Len(m) THEN 0 ELSE m[i].v + SumFrom(m, i + 1)

\* Counter.total
Total(m) == SumFrom(m, 1)

\* Counter.increment(p, k): a new key is appended, an old one keeps its place
Increment(m, p, k) ==
    IF Has(m, p)
    THEN [i \in DOMAIN m |-> IF m[i].p = p THEN Entry(p, m[i].v + k) ELSE m[i]]
    ELSE Append(m, Entry(p, k))

\* Map.set
Set(m, p, v) ==
    IF Has(m, p)
    THEN [i \in DOMAIN m |-> IF m[i].p = p THEN Entry(p, v) ELSE m[i]]
    ELSE Append(m, Entry(p, v))

\* [...entries].filter(pred) rebuilt as a Counter
RECURSIVE FilterFrom(_, _, _)
FilterFrom(m, keep, i) ==
    IF i > Len(m) THEN <<>>
    ELSE (IF m[i].p \in keep THEN <<m[i]>> ELSE <<>>) \o FilterFrom(m, keep, i + 1)

\* ------------------------------------------------------ python helpers
\* the reduction written with < : it keeps the least key
RECURSIVE maxFrom_least(_, _, _)
maxFrom_least(m, i, a) ==
    IF i > Len(m) THEN a
    ELSE maxFrom_least(m, i + 1, IF Get(m, a) < Get(m, m[i].p) THEN a ELSE m[i].p)

\* max(keys, p => m.get(p)): array.reduce((a, b) => key(a) > key(b) ? a : b)
RECURSIVE maxFrom(_, _, _)
maxFrom(m, i, a) ==
    IF i > Len(m) THEN a
    ELSE maxFrom(m, i + 1, IF Get(m, a) > Get(m, m[i].p) THEN a ELSE m[i].p)

max(m) == maxFrom(m, 2, m[1].p)

\* the reduction that keeps the earlier of two equal keys
RECURSIVE minFrom_first(_, _, _)
minFrom_first(m, i, a) ==
    IF i > Len(m) THEN a
    ELSE minFrom_first(m, i + 1, IF Get(m, a) <= Get(m, m[i].p) THEN a ELSE m[i].p)

\* min(keys, p => m.get(p)): array.reduce((a, b) => key(a) < key(b) ? a : b)
RECURSIVE minFrom(_, _, _)
minFrom(m, i, a) ==
    IF i > Len(m) THEN a
    ELSE minFrom(m, i + 1, IF Get(m, a) < Get(m, m[i].p) THEN a ELSE m[i].p)

min(m) == minFrom(m, 2, m[1].p)

\* divmod(a, b) = [Math.floor(a / b), a % b] for a >= 0, b > 0
divmod(a, b) == <<a \div b, a % b>>

\* ------------------------------------------------------------ outcomes
\* kind: "return" (seats), "AttributionFailure", "Standoff", "Error",
\* "TypeError" (reduce of an empty array), "NaN" (a Counter of NaN values),
\* "delegate" (the closure calls `to` with `votes` and `rest` and returns
\* whatever it returns)
NoAttr == [kind |-> "none", name |-> "none", nSeats |-> 0, threshold |-> <<0, 1>>,
           contingency |-> "null", contSeats |-> 0, attribution |-> "none",
           minNSeats |-> 0, contingencyArg |-> "null"]

Outcome(k, s, via, to, v, r) ==
    [kind |-> k, seats |-> s, via |-> via, to |-> to, votes |-> v, rest |-> r]
Return(s) == Outcome("return", s, "none", NoAttr, <<>>, "undefined")
Throw(e) == Outcome(e, <<>>, "none", NoAttr, <<>>, "undefined")
\* via names the parameter called: "attribution" or "contingency"
Delegate(via, to, v, r) == Outcome("delegate", <<>>, via, to, v, r)

\* `rest = {}`: the default of the second parameter
\* a fresh empty object handed on whatever was received
RestDefault_fresh(r) == "{}"

RestDefault(r) == IF r = "undefined" THEN "{}" ELSE r

\* --------------------------------------------------------- attributions
\* An attribution closure: kind is the closure's code, name the factory that
\* built it; contingency is "null", "undefined" or the name of a factory,
\* built with contSeats seats; attribution is the wrapped base (kind).
Attr(k, nm, n, t, c, cs, b) ==
    [kind |-> k, name |-> nm, nSeats |-> n, threshold |-> t,
     contingency |-> c, contSeats |-> cs, attribution |-> b, minNSeats |-> n,
     contingencyArg |-> c]

\* the closure a factory without threshold or contingency returns:
\* jefferson, webster and the base of huntingtonHill are
\* proportionalFromRankIndexFunction closures
Build(nm, n) ==
    Attr(IF nm \in {"jefferson", "webster", "huntingtonHillBase"} THEN "rankIndex" ELSE nm,
         nm, n, <<0, 1>>, "null", 0, "none")

\* the contingency of a closure, as a closure
ContingencyOf(a) == Build(a.contingency, a.contSeats)

\* plurality({nSeats})(votes)
plurality(nSeats, v) ==
    IF v = <<>> THEN Throw("TypeError")
    ELSE LET win == max(v) IN
         IF Get(v, win) > 0 THEN Return(<<Entry(win, nSeats)>>)
         ELSE Throw("AttributionFailure")

\* superMajority({nSeats, threshold, contingency})(votes, rest):
\* votes.get(win) / votes.total > threshold; 0 / 0 is NaN and NaN > x is false
superMajority(a, v, r) ==
    IF v = <<>> THEN Throw("TypeError")
    ELSE LET win == max(v)
             total == Total(v)
         IN  IF total > 0 /\ Get(v, win) * a.threshold[2] > a.threshold[1] * total
             THEN Return(<<Entry(win, a.nSeats)>>)
             ELSE IF a.contingency = "null" THEN Throw("AttributionFailure")
             ELSE Delegate("contingency", ContingencyOf(a), v, RestDefault(r))

\* Array.prototype.sort (stable) of the keys of m; cmp[<<a, b>>] is the sign
\* of the comparator, NaN counting as 0
RECURSIVE InsertSorted(_, _, _, _)
InsertSorted(s, x, cmp, i) ==
    IF i > Len(s) THEN Append(s, x)
    ELSE IF cmp[<<s[i], x>>] > 0
         THEN SubSeq(s, 1, i - 1) \o <<x>> \o SubSeq(s, i, Len(s))
         ELSE InsertSorted(s, x, cmp, i + 1)

RECURSIVE SortFrom(_, _, _, _)
SortFrom(ks, cmp, i, acc) ==
    IF i > Len(ks) THEN acc
    ELSE SortFrom(ks, cmp, i + 1, InsertSorted(acc, ks[i], cmp, 1))

sort(ks, cmp) == SortFrom(ks, cmp, 1, <<>>)

KeySeq(m) == [i \in DOMAIN m |-> m[i].p]

Sign(x) == IF x > 0 THEN 1 ELSE IF x < 0 THEN -1 ELSE 0

\* seats.update(list) forgotten: the remainder seats are never awarded
UpdateFrom_dropped(m, ks, i) == m

\* seats.update(list): one more seat for each key listed
RECURSIVE UpdateFrom(_, _, _)
UpdateFrom(m, ks, i) ==
    IF i > Len(ks) THEN m ELSE UpdateFrom(Increment(m, ks[i], 1), ks, i + 1)

\* the comparator written ascending: smallest remainders first
remainderOrder_ascending(remainders, a, b) == Get(remainders, a) - Get(remainders, b)

\* hamilton's sort comparator (a, b) => remainders.get(b) - remainders.get(a)
remainderOrder(remainders, a, b) == Get(remainders, b) - Get(remainders, a)

\* hamilton({nSeats})(votes)
hamilton(nSeats, v) ==
    LET sumVotes == Total(v) IN
    IF v = <<>> THEN Return(<<>>)
    ELSE IF sumVotes = 0 THEN Throw("NaN")
    ELSE LET floors == [i \in DOMAIN v |-> Entry(v[i].p, divmod(v[i].v * nSeats, sumVotes)[1])]
             remainders == [i \in DOMAIN v |-> Entry(v[i].p, divmod(v[i].v * nSeats, sumVotes)[2])]
             cmp == [ab \in Keys(v) \X Keys(v) |->
                        Sign(remainderOrder(remainders, ab[1], ab[2]))]
             order == sort(KeySeq(remainders), cmp)
             extra == nSeats - Total(floors)
             top == SubSeq(order, 1, IF extra < Len(order) THEN extra ELSE Len(order))
         IN  Return(UpdateFrom(floors, top, 1))

\* the filter written with > : a party exactly at the threshold is dropped
ReachesThreshold_strict(count, threshold, total) ==
    count * threshold[2] > threshold[1] * total

\* the filter of addThresholdToSimpleAttribution: v >= threshold * votes.total
ReachesThreshold(count, threshold, total) ==
    count * threshold[2] >= threshold[1] * total

\* the wrapper handing the contingency the filtered (empty) tally
addThresholdToSimpleAttribution_filtered(a, v, r) ==
    LET attribution == Build(a.attribution, a.nSeats)
        contingency == IF a.contingency = "undefined" THEN attribution ELSE ContingencyOf(a)
        kept == {p \in Keys(v) : ReachesThreshold(Get(v, p), a.threshold, Total(v))}
        filtered == FilterFrom(v, kept, 1)
    IN  IF a.threshold[1] > 0
        THEN IF Len(filtered) = 0
             THEN IF a.contingency = "null" THEN Throw("AttributionFailure")
                  ELSE Delegate("contingency", contingency, filtered, RestDefault(r))
             ELSE Delegate("attribution", attribution, filtered, RestDefault(r))
        ELSE Delegate("attribution", attribution, v, RestDefault(r))

\* addThresholdToSimpleAttribution({threshold, attribution, contingency})(votes, rest)
addThresholdToSimpleAttribution(a, v, r) ==
    LET attribution == Build(a.attribution, a.nSeats)
        contingency == IF a.contingency = "undefined" THEN attribution ELSE ContingencyOf(a)
        total == Total(v)
        kept == {p \in Keys(v) : ReachesThreshold(Get(v, p), a.threshold, total)}
        filtered == FilterFrom(v, kept, 1)
    IN  IF a.threshold[1] > 0
        THEN IF Len(filtered) = 0
             THEN IF a.contingency = "null" THEN Throw("AttributionFailure")
                  ELSE Delegate("contingency", contingency, v, RestDefault(r))
             ELSE Delegate("attribution", attribution, filtered, RestDefault(r))
        ELSE Delegate("attribution", attribution, v, RestDefault(r))

\* the factory handing its contingency argument on as it is
huntingtonHill_passthrough(n, t, c, cs) ==
    Attr("addThreshold", "huntingtonHill", n, t, c, cs, "huntingtonHillBase")

\* huntingtonHill({nSeats, threshold, contingency = null}); contingencyArg
\* keeps the argument as the caller gave it
huntingtonHill(n, t, c, cs) ==
    [Attr("addThreshold", "huntingtonHill", n, t,
          IF c = "undefined" THEN "null" ELSE c, cs, "huntingtonHillBase")
        EXCEPT !.contingencyArg = c]

\* ------------------------------------------------- rank-index scores
\* A score is NaN, Infinity or the fraction n / d (d > 0).  For
\* huntingtonHill, whose divisor is sqrt(k (k + 1)), n / d is the square
\* of the score: scores are never negative, so squares order them alike.
NaN == [k |-> "nan", n |-> 0, d |-> 1]
Infinity == [k |-> "inf", n |-> 0, d |-> 1]
RECURSIVE GCD(_, _)
GCD(x, y) == IF y = 0 THEN x ELSE GCD(y, x % y)
\* fractions are kept in lowest terms (0 / 0 as it is)
Fin(n, d) ==
    LET g == GCD(n, d)
    IN  IF g = 0 THEN [k |-> "fin", n |-> n, d |-> d]
        ELSE [k |-> "fin", n |-> n \div g, d |-> d \div g]

\* sign of a - b as a sort comparator reads it (NaN counts as 0)
Minus(a, b) ==
    IF a.k = "nan" \/ b.k = "nan" THEN 0
    ELSE IF a.k = "inf" THEN (IF b.k = "inf" THEN 0 ELSE 1)
    ELSE IF b.k = "inf" THEN -1
    ELSE Sign(a.n * b.d - b.n * a.d)

\* a >= b
GreaterEq(a, b) ==
    IF a.k = "nan" \/ b.k = "nan" THEN FALSE
    ELSE IF a.k = "inf" THEN TRUE
    ELSE IF b.k = "inf" THEN FALSE
    ELSE a.n * b.d >= b.n * a.d

\* a score that ignores the seats already held
rankIndexFunctionFromDivisorFunction_stale(nm, tIsNaN, v, allVotes, a) ==
    IF tIsNaN THEN NaN ELSE Fin(v, allVotes)

\* rankIndexFunctionFromDivisorFunction(divisorFunction)(t, a) = t / d(a),
\* with t = v / allVotes (NaN when allVotes is 0 or the party is undefined)
rankIndexFunctionFromDivisorFunction(nm, tIsNaN, v, allVotes, a) ==
    IF tIsNaN THEN NaN
    ELSE IF nm = "jefferson" THEN Fin(v, allVotes * (a + 1))
    ELSE IF nm = "webster" THEN Fin(v, allVotes * (2 * a + 1))
    ELSE Fin(v * v, allVotes * allVotes * a * (a + 1))

\* the rank-index function of the attribution named nm
rankIndexFunction(nm, tIsNaN, v, allVotes, a) ==
    IF nm = "huntingtonHillBase" /\ a <= 0 THEN Infinity
    ELSE rankIndexFunctionFromDivisorFunction(nm, tIsNaN, v, allVotes, a)

\* rankIndexValues.get(p): undefined for a missing key, which compares as NaN
ScoreOf(m, p) == IF Has(m, p) THEN (CHOOSE e \in {m[i] : i \in DOMAIN m} : e.p = p).v ELSE NaN

\* the reinsertion reduced to parties.push(winner)
InsertionPoint_push(ps, riv, winner, at) == Len(ps) + 1

\* the first index at which rankIndexValues(parties[index]) >= rankIndexValues(winner)
RECURSIVE InsertionPoint(_, _, _, _)
InsertionPoint(ps, riv, winner, at) ==
    IF at > Len(ps) THEN at
    ELSE IF GreaterEq(ScoreOf(riv, ps[at]), ScoreOf(riv, winner)) THEN at
    ELSE InsertionPoint(ps, riv, winner, at + 1)

\* parties.splice(index, 0, winner), or parties.push(winner)
Reinsert(ps, riv, winner) ==
    LET at == InsertionPoint(ps, riv, winner, 1)
    IN  SubSeq(ps, 1, at - 1) \o <<winner>> \o SubSeq(ps, at, Len(ps))

\* proportionalFromRankIndexFunction: the state before the award loop
InitialScores(nm, v) ==
    [i \in DOMAIN v |-> Entry(v[i].p, rankIndexFunction(nm, Total(v) = 0, v[i].v, Total(v), 0))]

InitialParties(nm, v) ==
    LET riv == InitialScores(nm, v)
        cmp == [ab \in Keys(v) \X Keys(v) |-> Minus(ScoreOf(riv, ab[1]), ScoreOf(riv, ab[2]))]
    IN  sort(KeySeq(v), cmp)

\* parties.pop()
Pop(ps) == IF Len(ps) = 0 THEN "undefined" ELSE ps[Len(ps)]
Popped(ps) == IF Len(ps) = 0 THEN ps ELSE SubSeq(ps, 1, Len(ps) - 1)

\* the comparison written with >
LessThan_greater(a, b) ==
    IF a.k = "nan" \/ b.k = "nan" THEN FALSE
    ELSE IF b.k = "inf" THEN FALSE
    ELSE IF a.k = "inf" THEN TRUE
    ELSE a.n * b.d > b.n * a.d

\* a metric that is never a number
defaultMetric_nan(v, s) == NaN

\* a < b
LessThan(a, b) ==
    IF a.k = "nan" \/ b.k = "nan" THEN FALSE
    ELSE IF a.k = "inf" THEN FALSE
    ELSE IF b.k = "inf" THEN TRUE
    ELSE a.n * b.d < b.n * a.d

Abs(x) == IF x < 0 THEN -x ELSE x

\* sum over seats.keys() of |allSeats * partyVotes / allVotes - partySeats|,
\* times allVotes
RECURSIVE suumFrom(_, _, _)
suumFrom(v, s, i) ==
    IF i > Len(s) THEN 0
    ELSE Abs(Total(s) * Get(v, s[i].p) - s[i].v * Total(v)) + suumFrom(v, s, i + 1)

\* defaultMetric({votes, seats}) = suum / seats.size (0 / 0 is NaN)
defaultMetric(v, s) ==
    IF Total(v) = 0 \/ Len(s) = 0 THEN NaN
    ELSE Fin(suumFrom(v, s, 1), Total(v) * Len(s))

\* seats.pos: a copy holding the positive counts
RECURSIVE PosFrom(_, _)
PosFrom(s, i) ==
    IF i > Len(s) THEN <<>>
    ELSE (IF s[i].v > 0 THEN <<s[i]>> ELSE <<>>) \o PosFrom(s, i + 1)

Pos(s) == PosFrom(s, 1)

\* the metric of the empty allocation, unpatched
initialBestSeatsMetric_unpatched == Fin(0, 1)

\* let bestSeatsMetric = Infinity
initialBestSeatsMetric == Infinity

\* boundedRankIndexMethod({minNSeats, maxNSeats, rankIndexFunction}) with the
\* rank-index function of nm and the default metric; nSeats holds maxNSeats
boundedRankIndexMethod(nm, minNSeats, maxNSeats) ==
    [Build(nm, maxNSeats) EXCEPT !.kind = "boundedRankIndex", !.minNSeats = minNSeats]

\* ------------------------------------------------------ ranked ballots
\* An Order tally is a sequence of ballots, each a sequence of parties.

\* votes.flat()
RECURSIVE Flat(_, _)
Flat(v, i) == IF i > Len(v) THEN <<>> ELSE v[i] \o Flat(v, i + 1)

Range(s) == {s[i] : i \in DOMAIN s}

\* new Set(votes.flat()).size
NParties(v) == Cardinality(Range(Flat(v, 1)))

\* instantRunoff: nParties = new Set(votes.flat()).size; the InstantRunoff
\* class of concrete/election/attribution.ts has the same body except for
\* nparties = new Set([].flat()).size
nParties(a, v) == IF a.kind = "InstantRunoff" THEN NParties(<<>>) ELSE NParties(v)

\* the first party of the ballot that is not blacklisted, if any
RECURSIVE FirstChoice(_, _, _)
FirstChoice(ballot, black, i) ==
    IF i > Len(ballot) THEN <<>>
    ELSE IF ballot[i] \notin black THEN <<ballot[i]>>
    ELSE FirstChoice(ballot, black, i + 1)

\* instantRunoff: the firstPlaces counter of one round
RECURSIVE FirstPlaces(_, _, _, _)
FirstPlaces(v, black, i, acc) ==
    IF i > Len(v) THEN acc
    ELSE LET c == FirstChoice(v[i], black, 1)
         IN  FirstPlaces(v, black, i + 1, IF c = <<>> THEN acc ELSE Increment(acc, c[1], 1))

\* the first entry of firstPlaces with score / total > .5, if any
RECURSIVE MajorityEntry(_, _, _)
MajorityEntry(fp, total, i) ==
    IF i > Len(fp) THEN <<>>
    ELSE IF 2 * fp[i].v > total THEN <<fp[i].p>>
    ELSE MajorityEntry(fp, total, i + 1)

\* bordaCount: enumerate(ballot.slice().reverse(), 1) adds i points to the
\* i-th party from the end of the ballot
\* the enumeration without reverse(): the first listed gets 1 point
RECURSIVE BordaBallot_forward(_, _, _)
BordaBallot_forward(scores, ballot, i) ==
    IF i > Len(ballot) THEN scores
    ELSE BordaBallot_forward(Increment(scores, ballot[i], i), ballot, i + 1)

RECURSIVE BordaBallot(_, _, _)
BordaBallot(scores, ballot, i) ==
    IF i > Len(ballot) THEN scores
    ELSE BordaBallot(Increment(scores, ballot[Len(ballot) + 1 - i], i), ballot, i + 1)

RECURSIVE BordaScores(_, _, _)
BordaScores(v, i, scores) ==
    IF i > Len(v) THEN scores
    ELSE BordaScores(v, i + 1, BordaBallot(scores, v[i], 1))

\* bordaCount({nSeats})(votes)
bordaCount(nSeats, v) ==
    LET scores == BordaScores(v, 1, <<>>)
    IN  IF scores = <<>> THEN Throw("TypeError")
        ELSE Return(<<Entry(max(scores), nSeats)>>)

\* condorcet: counts.get(party1).get(party2), the number of ballots that
\* list party1 before party2
PairCount(v, p1, p2) ==
    Cardinality({b \in DOMAIN v :
        \E i, j \in DOMAIN v[b] : i < j /\ v[b][i] = p1 /\ v[b][j] = p2})

\* condorcet: counts.keys(), the parties listed before another on some ballot
CountsKeys(v) ==
    {p1 \in Range(Flat(v, 1)) : \E p2 \in Range(Flat(v, 1)) : PairCount(v, p1, p2) > 0}

\* the deletion loop with majority = votes.length
CondorcetWin_whole(v) ==
    {party \in CountsKeys(v) :
        ~ \E p2 \in Range(Flat(v, 1)) : PairCount(v, party, p2) > Len(v)}

\* condorcet: the set win after the deletion loop
\* (majority = votes.length / 2; a party is deleted when one of its
\* positive counts is > majority)
CondorcetWin(v) ==
    {party \in CountsKeys(v) :
        ~ \E p2 \in Range(Flat(v, 1)) :
            PairCount(v, party, p2) > 0 /\ 2 * PairCount(v, party, p2) > Len(v)}

\* condorcet({nSeats, contingency = null})(votes, rest)
condorcet(a, v, r) ==
    LET win == CondorcetWin(v)
    IN  IF Cardinality(win) # 1
        THEN IF Cardinality(win) # 0 THEN Throw("Error")
             ELSE IF a.contingency = "null" THEN Throw("Standoff")
             ELSE Delegate("contingency", ContingencyOf(a), v, RestDefault(r))
        ELSE Return(<<Entry(CHOOSE w \in win : TRUE, a.nSeats)>>)

\* ------------------------------------------------------- graded ballots
\* A Scores tally is [ngrades, entries]: entries is a sequence of
\* [p |-> party, v |-> histogram], the histogram giving for each grade
\* 0 .. ngrades - 1 the number of ballots that gave it.

\* Scores.fromEntries(elements): ngrades is the length of the first array
\* (it throws on an empty array; medianScore passes two entries or more)
ScoresFromEntries(elements) ==
    IF Len(elements) = 0 THEN [ngrades |-> 0, entries |-> <<>>]
    ELSE [ngrades |-> Len(elements[1].v), entries |-> elements]

Repeat(x, n) == [i \in 1..n |-> x]

\* A Scores object: how it was made ("fromEntries", "fromGrades"; "Error"
\* when the constructor threw, "none" before it is called), its ngrades
\* and the entries of the Map.
NotBuilt == [made |-> "none", ngrades |-> 0, entries |-> <<>>]
ScoresError == [made |-> "Error", ngrades |-> 0, entries |-> <<>>]

\* Scores.fromEntries(elements), the throw on an empty array included
fromEntries(elements) ==
    IF Len(elements) = 0 THEN ScoresError
    ELSE [made |-> "fromEntries", ngrades |-> ScoresFromEntries(elements).ngrades,
          entries |-> elements]

\* Scores.fromGrades(ngrades): an empty Map whose get is replaced
fromGrades(ngrades) == [made |-> "fromGrades", ngrades |-> ngrades, entries |-> <<>>]

\* Map.prototype.has / get
ScoresHas(t, key) == \E i \in DOMAIN t.entries : t.entries[i].p = key
SuperGet(t, key) == (CHOOSE e \in Range(t.entries) : e.p = key).v

\* a get that stores the zeros it returns, as DefaultMap does
ScoresGet_setdefault(t, key) ==
    IF ScoresHas(t, key) THEN [value |-> SuperGet(t, key), self |-> t]
    ELSE [value |-> Repeat(0, t.ngrades),
          self |-> [t EXCEPT !.entries = Append(@, Entry(key, Repeat(0, t.ngrades)))]]

\* scores.get(key): the value returned and the object afterwards.
\* BaseScores.get returns super.get(key), or Array(ngrades).fill(0) when
\* that is undefined; the get of fromGrades returns the zeros whatever the
\* key. Neither writes to the Map.
ScoresGet(t, key) ==
    IF t.made = "fromGrades" THEN [value |-> Repeat(0, t.ngrades), self |-> t]
    ELSE IF ScoresHas(t, key) THEN [value |-> SuperGet(t, key), self |-> t]
    ELSE [value |-> Repeat(0, t.ngrades), self |-> t]

\* the [candidate, score] pairs of all ballots, in iteration order
RECURSIVE BallotEntries(_, _)
BallotEntries(ballots, i) ==
    IF i > Len(ballots) THEN <<>> ELSE ballots[i] \o BallotEntries(ballots, i + 1)

\* tallyScoreToScores: rawScores after the loops (a DefaultMap of arrays of
\* nScores zeros; rawScores.get(candidate)[score] += 1)
RECURSIVE RawScores(_, _, _, _)
RawScores(pairs, nScores, i, acc) ==
    IF i > Len(pairs) THEN acc
    ELSE LET key == pairs[i].p
             had == IF \E j \in DOMAIN acc : acc[j].p = key THEN acc
                    ELSE Append(acc, Entry(key, Repeat(0, nScores)))
             inc == [j \in DOMAIN had |->
                        IF had[j].p = key
                        THEN Entry(key, [had[j].v EXCEPT ![pairs[i].v + 1] = @ + 1])
                        ELSE had[j]]
         IN  RawScores(pairs, nScores, i + 1, inc)

\* tallyScoreToScores(ballots, {nScores})
tallyScoreToScores(ballots, nScores) ==
    fromEntries(RawScores(BallotEntries(ballots, 1), nScores, 1, <<>>))

\* counts.get(party) after the loops: each grade, once per ballot giving it
RECURSIVE GradeList(_, _)
GradeList(grades, i) ==
    IF i > Len(grades) THEN <<>>
    ELSE Repeat(i - 1, grades[i]) \o GradeList(grades, i + 1)

\* the DefaultMap counts: a party gets a key when its array has a grade
RECURSIVE CountsFrom(_, _)
CountsFrom(es, i) ==
    IF i > Len(es) THEN <<>>
    ELSE (IF Len(es[i].v) > 0 THEN <<Entry(es[i].p, GradeList(es[i].v, 1))>> ELSE <<>>)
            \o CountsFrom(es, i + 1)

\* twice median(l) of a non-empty sorted list: the middle element, or the
\* mean of the two middle ones
median2(l) ==
    IF Len(l) % 2 = 1 THEN 2 * l[(Len(l) + 1) \div 2]
    ELSE l[Len(l) \div 2] + l[Len(l) \div 2 + 1]

RECURSIVE SumSeq(_, _)
SumSeq(l, i) == IF i > Len(l) THEN 0 ELSE l[i] + SumSeq(l, i + 1)

\* max(counts.keys(), party => fmean(counts.get(party))); fmean(l) is
\* sum / length, compared by cross-multiplication, and NaN for an empty
\* list, with which every comparison is false
RECURSIVE maxMeanFrom(_, _, _)
maxMeanFrom(counts, i, a) ==
    IF i > Len(counts) THEN a
    ELSE LET la == Get(counts, a)
             lb == counts[i].v
         IN  maxMeanFrom(counts, i + 1,
                 IF /\ la # <<>> /\ lb # <<>>
                    /\ SumSeq(la, 1) * Len(lb) > SumSeq(lb, 1) * Len(la)
                 THEN a ELSE counts[i].p)

\* averageScore({nSeats})(votes): the statistics package is not part of
\* the repository, so fmean of an empty list is left open: the call
\* throws, or the mean is NaN
averageScore(nSeats, v, emptyThrows) ==
    LET counts == CountsFrom(v.entries, 1) IN
    IF counts = <<>> THEN Throw("TypeError")
    ELSE IF emptyThrows /\ \E i \in DOMAIN counts : counts[i].v = <<>>
    THEN Throw("Error")
    ELSE Return(<<Entry(maxMeanFrom(counts, 2, counts[1].p), nSeats)>>)

\* Math.max(...medians.values()), doubled
RECURSIVE MaxMedian(_, _)
MaxMedian(counts, i) ==
    IF i = Len(counts) THEN median2(counts[i].v)
    ELSE LET m == median2(counts[i].v)
             r == MaxMedian(counts, i + 1)
         IN  IF m > r THEN m ELSE r

\* [...medians.keys()].filter(p => medians.get(p) === winScore), kept as
\* the entries of counts
RECURSIVE TiedFrom(_, _, _)
TiedFrom(counts, winScore, i) ==
    IF i > Len(counts) THEN <<>>
    ELSE (IF median2(counts[i].v) = winScore THEN <<counts[i]>> ELSE <<>>)
            \o TiedFrom(counts, winScore, i + 1)

\* medianScore({nSeats, contingency})(votes, rest), every party having
\* received a grade; an undefined contingency is averageScore({nSeats})
medianScore(a, v, r) ==
    LET counts == CountsFrom(v.entries, 1)
        contingency == IF a.contingency = "undefined"
                       THEN Build("averageScore", a.nSeats) ELSE ContingencyOf(a)
    IN  IF counts = <<>> THEN Return(<<Entry("undefined", a.nSeats)>>)
        ELSE LET winners == TiedFrom(counts, MaxMedian(counts, 1), 1)
             IN  IF Len(winners) = 1 THEN Return(<<Entry(winners[1].p, a.nSeats)>>)
                 ELSE Delegate("contingency", contingency,
                               ScoresFromEntries(winners), RestDefault(r))

\* ---------------------------------------------------------------- RNG
\* The generator's modulus 2^31, reduced: the low bits of a linear
\* congruential generator modulo a power of two are themselves one, with the
\* multiplier and the increment reduced alike.
RngModulus == 8
RngA == 1103515245
RngC == 12345

\* set seed(seed): this.state = Math.abs(seed)
SeedState(seed) == Abs(seed)

\* randInt(): this.state = (this.a * this.state + this.c) % this.m
randInt(state) ==
    ((RngA % RngModulus) * (state % RngModulus) + (RngC % RngModulus)) % RngModulus

\* the factory's generator arguments
NoParam == [kind |-> "none", seed |-> 0]
Seeds == {0, 1}
RandomParams ==
    {NoParam, [kind |-> "randomObj", seed |-> 0]}
    \cup {[kind |-> "randomSeed", seed |-> sd] : sd \in Seeds}

\* a generator created once and drawn from at every call
createRandomObj_once(param, given, fresh) == given

\* createRandomObj(param): the generator that was passed, else a new
\* RNG(randomSeed); without a seed its state is drawn from Math.random()
\* (fresh). The result is the state of the generator returned.
createRandomObj(param, given, fresh) ==
    IF param.kind = "randomObj" THEN given
    ELSE IF param.kind = "randomSeed" THEN SeedState(param.seed)
    ELSE fresh

\* cumulative weight of the first i entries
CumWeight(v, i) == Total(SubSeq(v, 1, i))

\* one weighted draw: the first entry whose cumulative weight exceeds
\* random() * total, where random() = state / m
Pick(v, state) ==
    CHOOSE i \in 1..Len(v) :
        /\ CumWeight(v, i) * RngModulus > state * Total(v)
        /\ \A j \in 1..(i - 1) : CumWeight(v, j) * RngModulus <= state * Total(v)

\* randomObj.choices(keys, {weights, k}) on positive total weight: k draws
\* with replacement; the keys drawn, and the state the generator is left in
RECURSIVE choices(_, _, _)
choices(state, v, k) ==
    IF k = 0 THEN [state |-> state, picked |-> <<>>]
    ELSE LET next == randInt(state)
             tail == choices(next, v, k - 1)
         IN [state |-> tail.state,
             picked |-> <<v[Pick(v, next)].p>> \o tail.picked]

\* NumberCounter.fromKeys(keys)
RECURSIVE fromKeys(_)
fromKeys(keys) ==
    IF keys = <<>> THEN <<>>
    ELSE Increment(fromKeys(SubSeq(keys, 1, Len(keys) - 1)), keys[Len(keys)], 1)

\* the body of randomize's closure, given the generator createRandomObj
\* returned: the outcome and the state the generator is left in. Weights
\* that sum to zero are outside what the repository defines: the generator
\* either raises or hands back k keys (the last one, undefined if none).
randomize(nSeats, v, state, onZero) ==
    IF Total(v) > 0
    THEN LET drawn == choices(state, v, nSeats)
         IN [out |-> Return(fromKeys(drawn.picked)), state |-> drawn.state]
    ELSE IF onZero = "Error" THEN [out |-> Throw("Error"), state |-> state]
    ELSE [out |-> Return(IF nSeats = 0 THEN <<>>
                         ELSE <<Entry(IF v = <<>> THEN "undefined" ELSE v[Len(v)].p,
                                      nSeats)>>),
          state |-> state]

\* the caller has not called before
NoCall == [votes |-> <<>>, result |-> Throw("none")]

\* -------------------------------------------------------------- inputs
Tallies ==
    UNION {[1..k -> 0..MaxVotes] : k \in 0..MaxParties}

TallyOf(counts) == [i \in DOMAIN counts |-> Entry(Parties[i], counts[i])]

\* seat counts given to ranked-ballot attributions and to contingencies
SeatChoices == {1, MaxSeats}

Contingencies == {<<"null", 0>>} \cup {<<"plurality", m>> : m \in SeatChoices}

Configs ==
    {Build(nm, n) : nm \in {"plurality", "hamilton", "jefferson", "webster"}, n \in 0..MaxSeats}
    \cup {Attr("superMajority", "superMajority", n, t, c[1], c[2], "none") :
            n \in 0..MaxSeats, t \in Thresholds, c \in Contingencies}
    \cup {huntingtonHill(n, t, c[1], c[2]) :
            n \in 0..MaxSeats, t \in Thresholds, c \in Contingencies \cup {<<"undefined", 0>>}}
    \cup {Attr("addThreshold", "addThresholdToSimpleAttribution", n, t, c[1], c[2], b) :
            n \in 0..MaxSeats, t \in Thresholds,
            c \in Contingencies \cup {<<"undefined", 0>>}, b \in {"hamilton", "jefferson"}}

\* ballots rank each party at most once; they may be partial or empty
Ballots ==
    {b \in UNION {[1..k -> Candidates] : k \in 0..Cardinality(Candidates)} :
        \A i, j \in DOMAIN b : i # j => b[i] # b[j]}

RECURSIVE Dedupe(_, _, _)
Dedupe(s, i, acc) ==
    IF i > Len(s) THEN acc
    ELSE Dedupe(s, i + 1, IF s[i] \in Range(acc) THEN acc ELSE Append(acc, s[i]))

\* parties are named in the order in which the tally first lists them
Canonical(t) ==
    LET d == Dedupe(Flat(t, 1), 1, <<>>) IN d = SubSeq(Parties, 1, Len(d))

OrderTallies ==
    {t \in UNION {[1..k -> Ballots] : k \in 0..MaxBallots} : Canonical(t)}

OrderConfigs ==
    {Build(nm, n) : nm \in {"instantRunoff", "InstantRunoff", "bordaCount"},
                    n \in SeatChoices}
    \cup {Attr("condorcet", "condorcet", n, <<0, 1>>, c[1], c[2], "none") :
            n \in SeatChoices,
            c \in {<<"null", 0>>} \cup {<<"bordaCount", m>> : m \in SeatChoices}}

\* closures that ignore their second argument are called without one
PassesRest(a) == a.kind \in {"superMajority", "addThreshold", "condorcet", "medianScore"}

InitCall ==
    /\ rest \in IF PassesRest(cfg) THEN Rests ELSE {"undefined"}
    /\ pc = "call"
    /\ callee = cfg
    /\ arg = votes
    /\ handed = [votes |-> votes, shared |-> TRUE]
    /\ argRest = rest
    /\ calls = <<>>
    /\ result = Throw("none")
    /\ parties = <<>>
    /\ seats = <<>>
    /\ rankIndexValues = <<>>
    /\ sn = 0
    /\ blacklisted = {}
    /\ pn = 0
    /\ bestSeats = <<>>
    /\ bestSeatsMetric = Infinity

InitSimple ==
    /\ cfg \in Configs
    /\ votes \in {TallyOf(c) : c \in Tallies}
    /\ InitCall

InitOrder ==
    /\ cfg \in OrderConfigs
    /\ votes \in OrderTallies
    /\ InitCall

\* boundedRankIndexMethod over the divisor rank-index functions
BoundedConfigs ==
    {boundedRankIndexMethod(nm, lo, hi) :
        nm \in {"jefferson", "webster"}, lo \in 0..MaxSeats, hi \in 0..MaxSeats}

InitBounded ==
    /\ cfg \in BoundedConfigs
    /\ votes \in {TallyOf(c) : c \in Tallies}
    /\ InitCall

\* histograms of ngrades grades in which some ballot graded the party
Histograms(ngrades) ==
    {h \in [1..ngrades -> 0..MaxQty] : \E g \in 1..ngrades : h[g] > 0}

ScoresTallies ==
    UNION {{[ngrades |-> g, entries |-> [i \in 1..k |-> Entry(Parties[i], hs[i])]] :
                hs \in [1..k -> Histograms(g)]} :
            k \in 0..MaxScoreParties, g \in 1..MaxGrades}

ScoresConfigs ==
    {Build("averageScore", n) : n \in SeatChoices}
    \cup {Attr("medianScore", "medianScore", n, <<0, 1>>, c[1], c[2], "none") :
            n \in SeatChoices,
            c \in {<<"undefined", 0>>} \cup {<<"averageScore", m>> : m \in SeatChoices}}

InitScores ==
    /\ cfg \in ScoresConfigs
    /\ votes \in ScoresTallies
    /\ InitCall

\* the worked example of hamilton: {A:41, B:29, C:17, D:13}, nSeats = 10
ExampleConfig == Build("hamilton", 10)
ExampleVotes == <<Entry("A", 41), Entry("B", 29), Entry("C", 17), Entry("D", 13)>>

InitExample ==
    /\ cfg = ExampleConfig
    /\ votes = ExampleVotes
    /\ InitCall

\* score ballots: each of the first two parties is graded or not
ScoreBallots(nScores) ==
    UNION {{[i \in 1..Len(ps) |-> Entry(ps[i], g[i])] : g \in [1..Len(ps) -> 0..(nScores - 1)]} :
            ps \in {<<>>, <<"A">>, <<"B">>, <<"A", "B">>, <<"B", "A">>}}

\* what the caller constructs a Scores tally from
NoTally == [op |-> "none", elements |-> <<>>, n |-> 0]
TallyInputs ==
    {[op |-> "fromEntries", elements |-> t.entries, n |-> 0] : t \in ScoresTallies}
    \cup {[op |-> "fromGrades", elements |-> <<>>, n |-> g] : g \in 0..MaxGrades}
    \cup UNION {{[op |-> "tallyScoreToScores", elements |-> bs, n |-> g] :
                    bs \in UNION {[1..k -> ScoreBallots(g)] : k \in 0..(MaxQty + 1)}} :
                g \in 1..MaxGrades}

NoGet == [key |-> "none", value |-> <<>>, before |-> NotBuilt]

\* no Scores object is involved
InitNoTally ==
    /\ tallyInput = NoTally
    /\ scoresObj = NotBuilt
    /\ got = NoGet

\* the caller is about to construct a Scores tally; no attribution is called
InitTallying ==
    /\ tallyInput \in TallyInputs
    /\ scoresObj = NotBuilt
    /\ got = NoGet
    /\ cfg = NoAttr
    /\ votes = <<>>
    /\ InitCall

\* the worked example of jefferson: {A:100000, B:80000, C:30000}, nSeats = 8
DHondtConfig == Build("jefferson", 8)
DHondtVotes == <<Entry("A", 100000), Entry("B", 80000), Entry("C", 30000)>>

InitDHondt ==
    /\ cfg = DHondtConfig
    /\ votes = DHondtVotes
    /\ InitCall

\* no generator is involved
InitNoRandom ==
    /\ randomParam = NoParam
    /\ randomObj = 0
    /\ earlier = NoCall
    /\ choicesOnZero = "Error"

\* tallies given to randomize
RandomTallies == {TallyOf(t) : t \in {u \in Tallies : Len(u) <= 2}}

\* randomize({nSeats, ...randomParam}): a generator that was passed is in
\* any state; randomObj otherwise starts as new RNG(randomSeed)
InitRandomize ==
    /\ cfg \in {Build("randomize", n) : n \in SeatChoices}
    /\ votes \in RandomTallies
    /\ randomParam \in RandomParams
    /\ randomObj \in IF randomParam.kind = "randomObj" THEN 0..(RngModulus - 1)
                     ELSE {SeedState(randomParam.seed)}
    /\ earlier = NoCall
    /\ choicesOnZero \in {"Error", "return"}
    /\ InitCall

Init ==
    \/ (InitSimple \/ InitOrder \/ InitExample \/ InitBounded \/ InitScores
           \/ InitDHondt) /\ InitNoRandom /\ InitNoTally
    \/ InitRandomize /\ InitNoTally
    \/ InitTallying /\ InitNoRandom

\* --------------------------------------------------------------- steps
\* a ballot reversed
Reversed(ballot) == [i \in DOMAIN ballot |-> ballot[Len(ballot) + 1 - i]]

\* closures that write to the tally they are given: the threshold filter
\* deleting the entries it drops, bordaCount calling ballot.reverse()
ArgumentAfter_inplace(a, v) ==
    IF a.kind = "bordaCount" THEN [i \in DOMAIN v |-> Reversed(v[i])]
    ELSE IF a.kind = "addThreshold" /\ a.threshold[1] > 0
    THEN FilterFrom(v, {p \in Keys(v) : ReachesThreshold(Get(v, p), a.threshold, Total(v))}, 1)
    ELSE v

\* the tally a closure was called with, as its call leaves it. No closure
\* writes to it: the threshold filter builds new Counter(filtered) and
\* rebinds its local votes, bordaCount reverses ballot.slice(), hamilton
\* sorts a copy of remainders.keys(), and the others only read votes
ArgumentAfter(a, v) == v

\* the call a closure delegates to receives the object the closure was
\* given, unless it is the new Counter(filtered) of the threshold filter or
\* the new Scores of medianScore
PassesArgumentOn(a, out) ==
    /\ a.kind # "medianScore"
    /\ ~(a.kind = "addThreshold" /\ a.threshold[1] > 0 /\ out.via = "attribution")

\* the running closure finishes (returns or throws) or makes a tail call
Finish(out) ==
    /\ handed' = [votes |-> IF handed.shared THEN ArgumentAfter(callee, arg) ELSE handed.votes,
                 shared |-> IF out.kind = "delegate"
                            THEN handed.shared /\ PassesArgumentOn(callee, out)
                            ELSE handed.shared]
    /\ IF out.kind = "delegate"
       THEN /\ pc' = "call"
            /\ callee' = out.to
            /\ arg' = out.votes
            /\ argRest' = out.rest
            /\ calls' = Append(calls, [from |-> callee.kind, via |-> out.via, to |-> out.to,
                                       votes |-> out.votes, rest |-> out.rest])
            /\ UNCHANGED result
       ELSE /\ pc' = "done"
            /\ result' = out
            /\ UNCHANGED <<callee, arg, argRest, calls>>

CallPlurality ==
    /\ pc = "call" /\ callee.kind = "plurality"
    /\ Finish(plurality(callee.nSeats, arg))
    /\ UNCHANGED <<inputVars, loopVars>>

CallSuperMajority ==
    /\ pc = "call" /\ callee.kind = "superMajority"
    /\ Finish(superMajority(callee, arg, argRest))
    /\ UNCHANGED <<inputVars, loopVars>>

CallHamilton ==
    /\ pc = "call" /\ callee.kind = "hamilton"
    /\ Finish(hamilton(callee.nSeats, arg))
    /\ UNCHANGED <<inputVars, loopVars>>

CallAddThreshold ==
    /\ pc = "call" /\ callee.kind = "addThreshold"
    /\ Finish(addThresholdToSimpleAttribution(callee, arg, argRest))
    /\ UNCHANGED <<inputVars, loopVars>>

\* the seats Counter created once by the factory instead of by each call
RankIndexStart_hoisted ==
    /\ pc = "call" /\ callee.kind = "rankIndex"
    /\ rankIndexValues' = InitialScores(callee.name, arg)
    /\ parties' = InitialParties(callee.name, arg)
    /\ sn' = 0
    /\ pc' = "loop"
    /\ UNCHANGED <<inputVars, handed, callee, arg, argRest, calls, result, blacklisted, pn,
                   bestSeats, bestSeatsMetric, seats>>

\* proportionalFromRankIndexFunction: everything before the award loop
RankIndexStart ==
    /\ pc = "call" /\ callee.kind = "rankIndex"
    /\ rankIndexValues' = InitialScores(callee.name, arg)
    /\ parties' = InitialParties(callee.name, arg)
    /\ seats' = <<>>
    /\ sn' = 0
    /\ pc' = "loop"
    /\ UNCHANGED <<inputVars, handed, callee, arg, argRest, calls, result, blacklisted, pn,
                   bestSeats, bestSeatsMetric>>

\* one iteration of the award loop
RankIndexAward ==
    /\ pc = "loop" /\ sn < callee.nSeats
    /\ LET winner == Pop(parties)
           seats1 == Increment(seats, winner, 1)
           riv1 == Set(rankIndexValues, winner,
                       rankIndexFunction(callee.name, Total(arg) = 0 \/ ~Has(arg, winner),
                                         Get(arg, winner), Total(arg), Get(seats1, winner)))
       IN  /\ seats' = seats1
           /\ rankIndexValues' = riv1
           /\ parties' = Reinsert(Popped(parties), riv1, winner)
    /\ sn' = sn + 1
    /\ UNCHANGED <<inputVars, handed, pc, callee, arg, argRest, calls, result, blacklisted, pn,
                   bestSeats, bestSeatsMetric>>

\* the loop is over: return seats
RankIndexReturn ==
    /\ pc = "loop" /\ sn >= callee.nSeats
    /\ Finish(Return(seats))
    /\ UNCHANGED <<inputVars, loopVars>>

\* boundedRankIndexMethod: everything before the loop
BoundedStart ==
    /\ pc = "call" /\ callee.kind = "boundedRankIndex"
    /\ rankIndexValues' = InitialScores(callee.name, arg)
    /\ parties' = InitialParties(callee.name, arg)
    /\ seats' = <<>>
    /\ bestSeats' = Pos(<<>>)
    /\ bestSeatsMetric' = initialBestSeatsMetric
    /\ sn' = 1
    /\ pc' = "scan"
    /\ UNCHANGED <<inputVars, handed, callee, arg, argRest, calls, result, blacklisted, pn>>

\* boundedRankIndexMethod: one iteration of the loop
BoundedAward ==
    /\ pc = "scan" /\ sn <= callee.nSeats
    /\ LET winner == Pop(parties)
           seats1 == Increment(seats, winner, 1)
           newMetric == defaultMetric(arg, seats1)
           better == sn >= callee.minNSeats /\ LessThan(newMetric, bestSeatsMetric)
           riv1 == Set(rankIndexValues, winner,
                       rankIndexFunction(callee.name, Total(arg) = 0 \/ ~Has(arg, winner),
                                         Get(arg, winner), Total(arg), Get(seats1, winner)))
       IN  /\ seats' = seats1
           /\ bestSeats' = IF better THEN Pos(seats1) ELSE bestSeats
           /\ bestSeatsMetric' = IF better THEN newMetric ELSE bestSeatsMetric
           /\ rankIndexValues' = riv1
           /\ parties' = Reinsert(Popped(parties), riv1, winner)
    /\ sn' = sn + 1
    /\ UNCHANGED <<inputVars, handed, pc, callee, arg, argRest, calls, result, blacklisted, pn>>

\* boundedRankIndexMethod: the loop is over: return bestSeats
BoundedReturn ==
    /\ pc = "scan" /\ sn > callee.nSeats
    /\ Finish(Return(bestSeats))
    /\ UNCHANGED <<inputVars, loopVars>>

CallAverageScore ==
    /\ pc = "call" /\ callee.kind = "averageScore"
    /\ \E emptyThrows \in BOOLEAN : Finish(averageScore(callee.nSeats, arg, emptyThrows))
    /\ UNCHANGED <<inputVars, loopVars>>

CallMedianScore ==
    /\ pc = "call" /\ callee.kind = "medianScore"
    /\ Finish(medianScore(callee, arg, argRest))
    /\ UNCHANGED <<inputVars, loopVars>>

CallBordaCount ==
    /\ pc = "call" /\ callee.kind = "bordaCount"
    /\ Finish(bordaCount(callee.nSeats, arg))
    /\ UNCHANGED <<inputVars, loopVars>>

CallCondorcet ==
    /\ pc = "call" /\ callee.kind = "condorcet"
    /\ Finish(condorcet(callee, arg, argRest))
    /\ UNCHANGED <<inputVars, loopVars>>

\* instantRunoff: everything before the elimination loop
InstantRunoffStart ==
    /\ pc = "call" /\ callee.kind \in {"instantRunoff", "InstantRunoff"}
    /\ blacklisted' = {}
    /\ pn' = 0
    /\ pc' = "round"
    /\ UNCHANGED <<inputVars, handed, callee, arg, argRest, calls, result,
                   parties, seats, rankIndexValues, sn, bestSeats, bestSeatsMetric>>

\* instantRunoff: one round; it returns the majority winner, or eliminates
\* min(firstPlaces), which throws when firstPlaces is empty
InstantRunoffRound ==
    /\ pc = "round" /\ pn < nParties(callee, arg)
    /\ LET firstPlaces == FirstPlaces(arg, blacklisted, 1, <<>>)
           winner == MajorityEntry(firstPlaces, Total(firstPlaces), 1)
       IN  IF winner # <<>>
           THEN /\ Finish(Return(<<Entry(winner[1], callee.nSeats)>>))
                /\ UNCHANGED <<blacklisted, pn>>
           ELSE IF firstPlaces = <<>>
           THEN /\ Finish(Throw("TypeError"))
                /\ UNCHANGED <<blacklisted, pn>>
           ELSE /\ blacklisted' = blacklisted \cup {min(firstPlaces)}
                /\ pn' = pn + 1
                /\ UNCHANGED <<pc, callee, arg, argRest, calls, result, handed>>
    /\ UNCHANGED <<inputVars, parties, seats, rankIndexValues, sn,
                   bestSeats, bestSeatsMetric>>

\* instantRunoff: the loop ran out: throw new Error("Should not happen")
InstantRunoffExhausted ==
    /\ pc = "round" /\ pn >= nParties(callee, arg)
    /\ Finish(Throw("Error"))
    /\ UNCHANGED <<inputVars, loopVars>>

\* randomize: the whole call
CallRandomize ==
    /\ pc = "call" /\ callee.kind = "randomize"
    /\ \E fresh \in 0..(RngModulus - 2) :
          LET run == randomize(callee.nSeats, arg,
                               createRandomObj(randomParam, randomObj, fresh),
                               choicesOnZero)
          IN /\ randomObj' = run.state
             /\ Finish(run.out)
    /\ UNCHANGED <<cfg, votes, rest, randomParam, earlier, choicesOnZero, loopVars,
                   tallyVars>>

\* the caller calls the same attribution again, on any tally, and may
\* remember the call that just ended
CallAgain ==
    /\ pc = "done" /\ cfg.kind = "randomize"
    /\ earlier' \in {earlier, [votes |-> votes, result |-> result]}
    /\ votes' \in RandomTallies
    /\ arg' = votes'
    /\ handed' = [votes |-> votes', shared |-> TRUE]
    /\ pc' = "call"
    /\ result' = Throw("none")
    /\ UNCHANGED <<cfg, rest, randomParam, randomObj, choicesOnZero,
                   callee, argRest, calls, loopVars, tallyVars>>

\* the caller builds the same rank-index method for one seat more and calls
\* it on the same tally, remembering the call that just ended; the locals of
\* that call are left as they ended
CallLarger ==
    /\ pc = "done" /\ cfg.kind = "rankIndex" /\ cfg.nSeats < MaxSeats
    /\ earlier' = [votes |-> votes, result |-> result]
    /\ cfg' = Build(cfg.name, cfg.nSeats + 1)
    /\ callee' = cfg'
    /\ arg' = votes
    /\ handed' = [votes |-> votes, shared |-> TRUE]
    /\ argRest' = rest
    /\ calls' = <<>>
    /\ pc' = "call"
    /\ result' = Throw("none")
    /\ UNCHANGED <<votes, rest, randomParam, randomObj, choicesOnZero, loopVars, tallyVars>>

mainVars == <<cfg, votes, rest, pc, callee, arg, argRest, calls, result, loopVars,
              randomParam, randomObj, earlier, choicesOnZero, handed>>

\* the caller calls Scores.fromEntries(elements)
CallFromEntries ==
    /\ tallyInput.op = "fromEntries" /\ scoresObj = NotBuilt
    /\ scoresObj' = fromEntries(tallyInput.elements)
    /\ UNCHANGED <<mainVars, tallyInput, got>>

\* the caller calls Scores.fromGrades(ngrades)
CallFromGrades ==
    /\ tallyInput.op = "fromGrades" /\ scoresObj = NotBuilt
    /\ scoresObj' = fromGrades(tallyInput.n)
    /\ UNCHANGED <<mainVars, tallyInput, got>>

\* the caller calls tallyScoreToScores(ballots, {nScores})
CallTallyScoreToScores ==
    /\ tallyInput.op = "tallyScoreToScores" /\ scoresObj = NotBuilt
    /\ scoresObj' = tallyScoreToScores(tallyInput.elements, tallyInput.n)
    /\ UNCHANGED <<mainVars, tallyInput, got>>

\* the caller calls get(key) on the object built
CallScoresGet ==
    /\ scoresObj.made \in {"fromEntries", "fromGrades"}
    /\ \E key \in Candidates :
          LET r == ScoresGet(scoresObj, key)
          IN  /\ got' = [key |-> key, value |-> r.value, before |-> scoresObj]
              /\ scoresObj' = r.self
    /\ UNCHANGED <<mainVars, tallyInput>>

Next ==
    \/ CallFromEntries
    \/ CallFromGrades
    \/ CallTallyScoreToScores
    \/ CallScoresGet
    \/ CallRandomize
    \/ CallAgain
    \/ CallLarger
    \/ CallPlurality
    \/ CallBordaCount
    \/ CallCondorcet
    \/ InstantRunoffStart
    \/ InstantRunoffRound
    \/ InstantRunoffExhausted
    \/ CallSuperMajority
    \/ CallHamilton
    \/ CallAddThreshold
    \/ RankIndexStart
    \/ RankIndexAward
    \/ RankIndexReturn
    \/ BoundedStart
    \/ BoundedAward
    \/ BoundedReturn
    \/ CallAverageScore
    \/ CallMedianScore

Spec == Init /\ [][Next]_vars

\* ============================================================== claims
Done == pc = "done"
Returned == Done /\ result.kind = "return"
\* the top-level closure has run (it finished or made its call)
TopRan == ~(pc = "call" /\ calls = <<>>)
IsOrder(a) == a.kind \in {"instantRunoff", "InstantRunoff", "bordaCount", "condorcet"}
IsThreshold(a) == a.kind = "addThreshold"
FixedSeatNames ==
    {"jefferson", "webster", "huntingtonHill", "hamilton", "plurality",
     "superMajority", "instantRunoff", "bordaCount", "condorcet"}
\* at least one candidate and positive total support
ValidTally ==
    IF IsOrder(cfg) THEN NParties(votes) > 0 ELSE Len(votes) > 0 /\ Total(votes) > 0
\* the parties of the caller's tally at or above the threshold
AboveThreshold ==
    {p \in Keys(votes) : Get(votes, p) * cfg.threshold[2] >= cfg.threshold[1] * Total(votes)}
BaseOf(a) == Build(a.attribution, a.nSeats)

C2_FilteredTallyToBase ==
    (IsThreshold(cfg) /\ cfg.threshold[1] > 0 /\ AboveThreshold # {} /\ TopRan)
        => /\ Len(calls) = 1
           /\ calls[1].via = "attribution"
           /\ calls[1].to = BaseOf(cfg)
           /\ Keys(calls[1].votes) = AboveThreshold
           /\ \A p \in AboveThreshold : Get(calls[1].votes, p) = Get(votes, p)
           /\ callee = BaseOf(cfg) /\ arg = calls[1].votes

\* C2 witness: the base has returned on a filtered tally that lost a party
\* and kept one exactly at the threshold.
C2_Witness ==
    /\ IsThreshold(cfg) /\ cfg.threshold[1] > 0 /\ Done /\ result.kind = "return"
    /\ Len(calls) = 1 /\ Len(calls[1].votes) < Len(votes)
    /\ \E p \in Keys(calls[1].votes) :
          Get(votes, p) * cfg.threshold[2] = cfg.threshold[1] * Total(votes)

\* C3: the contingency path is taken iff t > 0 and no party reaches
\* t * total; on it AttributionFailure is thrown when the contingency is
\* null, otherwise the contingency is called with the original tally and
\* its result returned; with t = 0 the base gets the tally unfiltered.
C3_ContingencyPath ==
    (IsThreshold(cfg) /\ TopRan)
        => LET noneReaches == cfg.threshold[1] > 0 /\ AboveThreshold = {}
           IN  /\ (noneReaches /\ cfg.contingency = "null")
                    => Done /\ result.kind = "AttributionFailure" /\ calls = <<>>
               /\ (noneReaches /\ cfg.contingency # "null")
                    => /\ Len(calls) >= 1
                       /\ calls[1].via = "contingency"
                       /\ calls[1].votes = votes
                       /\ calls[1].to = IF cfg.contingency = "undefined"
                                         THEN BaseOf(cfg) ELSE ContingencyOf(cfg)
               /\ ~noneReaches
                    => /\ Len(calls) = 1
                       /\ calls[1].via = "attribution"
                       /\ calls[1].to = BaseOf(cfg)
                       /\ (cfg.threshold[1] = 0 => calls[1].votes = votes)

\* C3 witness: no party reached the threshold of a tally of three parties
\* and the contingency has returned on the original tally.
C3_Witness ==
    /\ IsThreshold(cfg) /\ cfg.threshold[1] > 0 /\ AboveThreshold = {}
    /\ Len(votes) = 3 /\ Returned
    /\ Len(calls) = 1 /\ calls[1].via = "contingency" /\ calls[1].votes = votes

\* every ballot ranks every candidate of the tally
CompleteRankings(v) == \A i \in DOMAIN v : Range(v[i]) = Range(Flat(v, 1))
\* x is ranked above y on more than half of the ballots
Beats(v, x, y) == 2 * PairCount(v, x, y) > Len(v)
CondorcetWinners(v) ==
    {x \in Range(Flat(v, 1)) : \A y \in Range(Flat(v, 1)) \ {x} : Beats(v, x, y)}

\* C4: condorcet on a tally of complete rankings in which some candidate X
\* is ranked above every other candidate on more than half of the ballots
\* returns {X: nSeats}, without throwing and without calling the
\* contingency.
C4_CondorcetWinnerReturned ==
    (cfg.name = "condorcet" /\ Len(votes) > 0 /\ CompleteRankings(votes) /\ TopRan)
        => \A x \in CondorcetWinners(votes) :
              /\ Done
              /\ result = Return(<<Entry(x, cfg.nSeats)>>)
              /\ calls = <<>>

\* C5: condorcet on a non-empty tally (of complete rankings) in which no
\* candidate beats every other by more than half of the ballots throws
\* Standoff when it has no contingency and otherwise hands the same tally
\* to the contingency; it throws no other error and returns no winner of
\* its own.
C5_NoWinnerStandoff ==
    (cfg.name = "condorcet" /\ Len(votes) > 0 /\ CompleteRankings(votes)
        /\ CondorcetWinners(votes) = {} /\ TopRan)
        => IF cfg.contingency = "null"
           THEN Done /\ result.kind = "Standoff" /\ calls = <<>>
           ELSE /\ Len(calls) = 1
                /\ calls[1].from = "condorcet"
                /\ calls[1].via = "contingency"
                /\ calls[1].to = ContingencyOf(cfg)
                /\ calls[1].votes = votes

\* C6: instantRunoff, in each of its implementations, returns a winner
\* within nParties rounds on every tally with a non-empty ballot, and never
\* reaches the final throw.
C6_InstantRunoffTerminates ==
    (cfg.name \in {"instantRunoff", "InstantRunoff"} /\ NParties(votes) >= 1)
        => /\ (pc = "round" => pn < NParties(votes))
           /\ (Done => result.kind = "return" /\ pn < NParties(votes))

\* the same property of the instantRunoff factory of orderingFactory.ts
\* alone, which has it
InstantRunoffFactoryTerminates ==
    (cfg.name = "instantRunoff" /\ NParties(votes) >= 1)
        => /\ (pc = "round" => pn < NParties(votes))
           /\ (Done => result.kind = "return" /\ pn < NParties(votes))

\* the share of the top candidate is strictly greater than the threshold
Qualifies ==
    /\ Len(votes) > 0 /\ Total(votes) > 0
    /\ \E p \in Keys(votes) : Get(votes, p) * cfg.threshold[2] > cfg.threshold[1] * Total(votes)

\* C7: superMajority returns {winner: nSeats} iff the top candidate's
\* share is strictly greater than the threshold (an empty or all-zero
\* tally does not qualify); otherwise it throws AttributionFailure without
\* a contingency and calls the contingency once, with the same tally, with
\* one.
C7_SuperMajorityStrict ==
    (cfg.name = "superMajority" /\ TopRan)
        => IF Qualifies
           THEN /\ Done /\ result.kind = "return" /\ calls = <<>>
                /\ Len(result.seats) = 1
                /\ result.seats[1].v = cfg.nSeats
                /\ \A q \in Keys(votes) : Get(votes, result.seats[1].p) >= Get(votes, q)
           ELSE IF cfg.contingency = "null"
           THEN Done /\ result.kind = "AttributionFailure" /\ calls = <<>>
           ELSE /\ Len(calls) = 1
                /\ calls[1].via = "contingency"
                /\ calls[1].to = ContingencyOf(cfg)
                /\ calls[1].votes = votes

\* C8: plurality throws AttributionFailure whenever no candidate has a
\* positive count, on an all-zero tally and on a tally without candidates,
\* for any nSeats.
C8_PluralityNoSupport ==
    (cfg.name = "plurality" /\ TopRan /\ \A p \in Keys(votes) : Get(votes, p) = 0)
        => Done /\ result.kind = "AttributionFailure"

\* C9: plurality on a tally where some candidate has a positive count
\* gives all nSeats to exactly one candidate, whose count is greater than
\* or equal to every other candidate's.
C9_PluralityWinner ==
    (cfg.name = "plurality" /\ TopRan /\ \E p \in Keys(votes) : Get(votes, p) > 0)
        => /\ Done /\ result.kind = "return"
           /\ Len(result.seats) = 1
           /\ result.seats[1].v = cfg.nSeats
           /\ result.seats[1].p \in Keys(votes)
           /\ \A q \in Keys(votes) : Get(votes, result.seats[1].p) >= Get(votes, q)

\* C9 witness: plurality has returned on a tally of three parties, two of
\* them tied for the largest count.
C9_Witness ==
    /\ cfg.name = "plurality" /\ cfg.nSeats = MaxSeats /\ Returned
    /\ Len(votes) = 3
    /\ \E p, q \in Keys(votes) :
          /\ p # q /\ Get(votes, p) = Get(votes, q) /\ Get(votes, p) > 0
          /\ \A x \in Keys(votes) : Get(votes, x) <= Get(votes, p)
          /\ result.seats = <<Entry(q, MaxSeats)>>

Floor(p) == (Get(votes, p) * cfg.nSeats) \div Total(votes)
Remainder(p) == (Get(votes, p) * cfg.nSeats) % Total(votes)
Extras == {p \in Keys(votes) : Get(result.seats, p) = Floor(p) + 1}
SumOfFloors == Total([i \in DOMAIN votes |-> Entry(votes[i].p, Floor(votes[i].p))])

\* C10: hamilton with nSeats = n on a tally with positive total gives every
\* candidate floor(votes * n / total) seats or one more, the extra seats
\* going to exactly the (n - sum of the floors) candidates with the largest
\* remainders; {A:41, B:29, C:17, D:13} with n = 10 yields
\* {A:4, B:3, C:2, D:1}.
C10_HamiltonLargestRemainders ==
    (cfg.name = "hamilton" /\ Total(votes) > 0 /\ TopRan)
        => /\ Done /\ result.kind = "return"
           /\ Keys(result.seats) = Keys(votes)
           /\ \A p \in Keys(votes) : Get(result.seats, p) \in {Floor(p), Floor(p) + 1}
           /\ Cardinality(Extras) = cfg.nSeats - SumOfFloors
           /\ \A p \in Extras : \A q \in Keys(votes) \ Extras : Remainder(p) >= Remainder(q)
           /\ (cfg = ExampleConfig /\ votes = ExampleVotes)
                => result.seats = <<Entry("A", 4), Entry("B", 3), Entry("C", 2), Entry("D", 1)>>

\* C10 witness: hamilton has returned {A:4, B:3, C:2, D:1} on the example,
\* two of the seats by remainder.
C10_Witness ==
    /\ Returned /\ cfg = ExampleConfig /\ votes = ExampleVotes
    /\ Extras = {"B", "C"}
    /\ Get(result.seats, "A") = 4 /\ Get(result.seats, "D") = 1

\* the candidates with positive votes at or above the threshold
Eligible ==
    {p \in Keys(votes) :
        Get(votes, p) > 0 /\ ReachesThreshold(Get(votes, p), cfg.threshold, Total(votes))}

\* the candidates handed to the base: at or above the threshold, with or
\* without votes
AtOrAbove ==
    {p \in Keys(votes) : ReachesThreshold(Get(votes, p), cfg.threshold, Total(votes))}

\* no candidate holds two or more seats of s while an eligible candidate
\* holds none
FirstBeforeSecond(s) ==
    \A q \in Eligible : Get(s, q) = 0 => \A p \in Keys(s) : Get(s, p) <= 1

\* C11 (as stated): at every step of huntingtonHill's seat-award loop no
\* candidate holds two or more seats while an eligible candidate (positive
\* votes, at or above the threshold) still holds none; when nSeats is at
\* least the number of eligible candidates each of them ends with at least
\* one seat.
C11_FirstSeatsFirst_Original ==
    /\ (cfg.name = "huntingtonHill" /\ pc = "loop") => FirstBeforeSecond(seats)
    /\ (cfg.name = "huntingtonHill" /\ Returned)
          => /\ FirstBeforeSecond(result.seats)
             /\ cfg.nSeats >= Cardinality(Eligible)
                   => \A q \in Eligible : Get(result.seats, q) >= 1

\* C11 (amended): the first part as stated; on a tally with positive total,
\* when nSeats is at least the number of candidates at or above the
\* threshold (zero-vote candidates included when the threshold is 0), each
\* of them ends with at least one seat.
C11_FirstSeatsFirst ==
    /\ (cfg.name = "huntingtonHill" /\ pc = "loop") => FirstBeforeSecond(seats)
    /\ (cfg.name = "huntingtonHill" /\ Returned)
          => /\ FirstBeforeSecond(result.seats)
             /\ (Total(votes) > 0 /\ cfg.nSeats >= Cardinality(AtOrAbove))
                   => \A q \in AtOrAbove : Get(result.seats, q) >= 1

\* C11 witness: two of three eligible candidates with unequal votes hold
\* their first seat, the third none yet, and a seat is still to be awarded.
C11_Witness ==
    /\ cfg.name = "huntingtonHill" /\ pc = "loop" /\ sn = 2 /\ sn < cfg.nSeats
    /\ Cardinality(Eligible) = 3
    /\ \E p, q \in Eligible : Get(votes, p) > Get(votes, q)
    /\ \E q \in Eligible : Get(seats, q) = 0
    /\ \E p \in Eligible : Get(seats, p) = 1

\* the locals of proportionalFromRankIndexFunction after k iterations of
\* its award loop
RECURSIVE FixedRun(_, _, _)
FixedRun(nm, v, k) ==
    IF k = 0
    THEN [parties |-> InitialParties(nm, v), seats |-> <<>>,
          rankIndexValues |-> InitialScores(nm, v)]
    ELSE LET st == FixedRun(nm, v, k - 1)
             winner == Pop(st.parties)
             seats1 == Increment(st.seats, winner, 1)
             riv1 == Set(st.rankIndexValues, winner,
                         rankIndexFunction(nm, Total(v) = 0 \/ ~Has(v, winner),
                                           Get(v, winner), Total(v), Get(seats1, winner)))
         IN  [parties |-> Reinsert(Popped(st.parties), riv1, winner),
              seats |-> seats1, rankIndexValues |-> riv1]

IsBounded(a) == a.kind = "boundedRankIndex"

\* C12: on a tally with positive total, boundedRankIndexMethod with
\* minNSeats = maxNSeats = k returns the seat mapping that
\* proportionalFromRankIndexFunction with nSeats = k and the same rank-index
\* function returns (FixedRun is that function's loop, as the first
\* conjunct checks against its run).
C12_BoundedEqualsFixed ==
    /\ (cfg.kind = "rankIndex" /\ pc = "loop")
          => /\ seats = FixedRun(cfg.name, votes, sn).seats
             /\ parties = FixedRun(cfg.name, votes, sn).parties
    /\ (cfg.kind = "rankIndex" /\ Returned)
          => result.seats = FixedRun(cfg.name, votes, cfg.nSeats).seats
    /\ (IsBounded(cfg) /\ cfg.minNSeats = cfg.nSeats /\ Total(votes) > 0 /\ Returned)
          => result.seats = FixedRun(cfg.name, votes, cfg.nSeats).seats

\* C12 witness: the bounded method with minNSeats = maxNSeats = MaxSeats has
\* returned MaxSeats seats on three parties with unequal votes.
C12_Witness ==
    /\ IsBounded(cfg) /\ cfg.minNSeats = MaxSeats /\ cfg.nSeats = MaxSeats /\ Returned
    /\ Len(votes) = 3 /\ \E p, q \in Keys(votes) : Get(votes, p) > Get(votes, q)
    /\ Total(result.seats) = MaxSeats
    /\ Len(result.seats) >= 2

\* the seat counts the bounded method scores
Scanned == {k \in 1..cfg.nSeats : k >= cfg.minNSeats}
MetricAt(k) == defaultMetric(votes, FixedRun(cfg.name, votes, k).seats)
\* the metric at j seats is smaller than at k seats (both are numbers)
Smaller(j, k) == MetricAt(j).n * MetricAt(k).d < MetricAt(k).n * MetricAt(j).d

C14_NeverEmpty ==
    (IsBounded(cfg) /\ cfg.minNSeats <= cfg.nSeats /\ Total(votes) > 0 /\ Returned)
        => /\ (Total(result.seats) = 0 => cfg.nSeats = 0)
           /\ cfg.nSeats >= 1
                => /\ Total(result.seats) >= cfg.minNSeats
                   /\ Total(result.seats) >= 1
                   /\ Total(result.seats) <= cfg.nSeats

\* C14 witness: minNSeats = 0 and the method has returned one seat or more.
C14_Witness ==
    /\ IsBounded(cfg) /\ cfg.minNSeats = 0 /\ cfg.nSeats = MaxSeats
    /\ Total(votes) > 0 /\ Len(votes) = 3 /\ Returned
    /\ Total(result.seats) >= 1

\* the histogram of party p in the Scores tally t
HistogramOf(t, p) == (CHOOSE e \in Range(t.entries) : e.p = p).v
ScoreKeys(t) == {e.p : e \in Range(t.entries)}
\* the candidates sharing the highest median
TiedForMedian ==
    {p \in ScoreKeys(votes) :
        \A q \in ScoreKeys(votes) :
            median2(GradeList(HistogramOf(votes, p), 1))
                >= median2(GradeList(HistogramOf(votes, q), 1))}

\* C15: when two or more candidates share the highest median, medianScore
\* calls the contingency with a Scores tally holding exactly the tied
\* candidates, each with its original grade histogram (same ngrades, same
\* per-grade counts), and returns the contingency's result.
C15_TiedHistogramsPassed ==
    (cfg.name = "medianScore" /\ Cardinality(TiedForMedian) >= 2 /\ TopRan)
        => /\ Len(calls) = 1
           /\ calls[1].via = "contingency"
           /\ ScoreKeys(calls[1].votes) = TiedForMedian
           /\ calls[1].votes.ngrades = votes.ngrades
           /\ \A p \in TiedForMedian :
                 HistogramOf(calls[1].votes, p) = HistogramOf(votes, p)

\* the points ballot b gives p: L - i at 0-based position i, 0 if unlisted
PointsOn(b, p) ==
    IF \E j \in DOMAIN b : b[j] = p
    THEN Len(b) - ((CHOOSE j \in DOMAIN b : b[j] = p) - 1)
    ELSE 0

RECURSIVE PointsFrom(_, _)
PointsFrom(p, i) ==
    IF i > Len(votes) THEN 0 ELSE PointsOn(votes[i], p) + PointsFrom(p, i + 1)

\* C16: bordaCount gives the candidate at 0-based position i of a ballot of
\* L candidates L - i points and unlisted candidates none, returns
\* {W: nSeats} for a candidate W of maximal point total, and does not throw
\* on a tally with a non-empty ballot.
C16_BordaWinner ==
    (cfg.name = "bordaCount" /\ NParties(votes) >= 1 /\ TopRan)
        => /\ Done /\ result.kind = "return"
           /\ Len(result.seats) = 1
           /\ result.seats[1].v = cfg.nSeats
           /\ result.seats[1].p \in Range(Flat(votes, 1))
           /\ \A q \in Range(Flat(votes, 1)) :
                 PointsFrom(result.seats[1].p, 1) >= PointsFrom(q, 1)
           /\ BordaScores(votes, 1, <<>>)
                 = [i \in DOMAIN BordaScores(votes, 1, <<>>) |->
                      Entry(BordaScores(votes, 1, <<>>)[i].p,
                            PointsFrom(BordaScores(votes, 1, <<>>)[i].p, 1))]

\* C16 witness: three candidates, a partial ballot, and a winner that some
\* ballot does not rank first.
C16_Witness ==
    /\ cfg.name = "bordaCount" /\ Returned /\ NParties(votes) = 3
    /\ \E i \in DOMAIN votes : Len(votes[i]) \in 1..2
    /\ \E i \in DOMAIN votes : Len(votes[i]) > 0 /\ votes[i][1] # result.seats[1].p
    /\ \E q \in Range(Flat(votes, 1)) :
          PointsFrom(q, 1) < PointsFrom(result.seats[1].p, 1)

\* built with threshold > 0 and no contingency argument, and called on a
\* tally in which no candidate reaches the threshold
OmittedAndNoneReaches ==
    /\ IsThreshold(cfg) /\ cfg.contingencyArg = "undefined"
    /\ cfg.threshold[1] > 0 /\ AboveThreshold = {} /\ TopRan

\* the base method is called on the full tally
RetriedUnthresholded ==
    /\ Len(calls) = 1
    /\ calls[1].to = BaseOf(cfg)
    /\ calls[1].votes = votes
    /\ Done => result.kind # "AttributionFailure"

\* C17 (as stated): addThresholdToSimpleAttribution and huntingtonHill,
\* built with threshold > 0 and no contingency argument, allocate a tally
\* in which no candidate reaches the threshold by the base method on the
\* full tally, without raising AttributionFailure.
C17_OmittedRetries_Original ==
    OmittedAndNoneReaches => RetriedUnthresholded

\* C17 (amended): so does addThresholdToSimpleAttribution; huntingtonHill,
\* whose contingency defaults to null, raises AttributionFailure.
C17_OmittedRetries ==
    OmittedAndNoneReaches
        => IF cfg.name = "huntingtonHill"
           THEN Done /\ result.kind = "AttributionFailure" /\ calls = <<>>
           ELSE RetriedUnthresholded

\* C17 witness: an addThresholdToSimpleAttribution wrapper without
\* contingency argument has returned the base's allocation of a tally of
\* three candidates, none of which reaches the threshold.
C17_Witness ==
    /\ OmittedAndNoneReaches /\ cfg.name = "addThresholdToSimpleAttribution"
    /\ Len(votes) = 3 /\ Returned /\ RetriedUnthresholded
    /\ Total(result.seats) = MaxSeats

\* the combinators whose closure takes and forwards a second argument
Delegates(a) == a.kind \in {"addThreshold", "superMajority", "condorcet"}

\* C18: addThresholdToSimpleAttribution (to its base attribution and to its
\* contingency), superMajority and condorcet (to their contingency) hand on
\* the extras value they received as second argument, unchanged.
C18_ExtrasPassedOn ==
    (Delegates(cfg) /\ rest # "undefined")
        => \A i \in 1..Len(calls) : calls[i].rest = rest

\* C18 witness: condorcet, called with extras, has delegated to its
\* contingency and handed the extras on.
C18_Witness ==
    /\ cfg.kind = "condorcet" /\ rest = "extras"
    /\ Len(calls) = 1 /\ calls[1].via = "contingency"
    /\ calls[1].rest = "extras" /\ Done

\* a divisor method called on a non-empty tally whose counts are all zero
DivisorOnAllZero ==
    /\ cfg.kind = "rankIndex" /\ cfg.name \in {"jefferson", "webster"}
    /\ Len(votes) > 0 /\ Total(votes) = 0

\* C19: jefferson and webster (proportionalFromDivisorFunction), called on a
\* non-empty tally whose counts are all zero, return no seat mapping: the
\* call ends in an ordinary error, not in an AttributionFailure.
C19_AllZeroFails ==
    (DivisorOnAllZero /\ Done) => result.kind \in {"Error", "TypeError"}

\* a call of an attribution built by randomize({nSeats, randomSeed}) has ended
SeededRandomizeDone ==
    cfg.kind = "randomize" /\ randomParam.kind = "randomSeed" /\ Done

\* C20: for an attribution built by randomize({nSeats, randomSeed}), a call
\* returns what any earlier call on an equal tally returned, whatever calls
\* were made in between, and a returned mapping totals nSeats.
C20_SeededCallsIndependent ==
    SeededRandomizeDone
        => /\ (earlier # NoCall /\ earlier.votes = votes) => earlier.result = result
           /\ result.kind = "return" => Total(result.seats) = cfg.nSeats

\* C20 witness: a seeded randomize has drawn MaxSeats seats over two
\* supported candidates in an earlier call and again now, seating both
\* candidates, and the two calls agree.
C20_Witness ==
    /\ SeededRandomizeDone /\ Returned /\ cfg.nSeats = MaxSeats
    /\ Len(votes) = 2 /\ votes[1].v > 0 /\ votes[2].v > 0
    /\ earlier.votes = votes /\ earlier.result = result
    /\ Len(result.seats) = 2

\* C21: jefferson (D'Hondt) with nSeats = 8 on {A:100000, B:80000, C:30000}
\* returns exactly {A:4, B:3, C:1}.
C21_DHondtExample ==
    (cfg = DHondtConfig /\ votes = DHondtVotes /\ Done)
        => /\ result.kind = "return"
           /\ Keys(result.seats) = {"A", "B", "C"}
           /\ Get(result.seats, "A") = 4
           /\ Get(result.seats, "B") = 3
           /\ Get(result.seats, "C") = 1

\* C21 witness: the call of the example has returned, C holding a seat.
C21_Witness ==
    /\ cfg = DHondtConfig /\ votes = DHondtVotes /\ Returned
    /\ sn = 8 /\ Get(result.seats, "C") = 1

\* the ballots [[A,B],[B,A],[C,A]] given to the instantRunoff factory
RunoffExample ==
    /\ cfg.kind = "instantRunoff"
    /\ votes = << <<"A", "B">>, <<"B", "A">>, <<"C", "A">> >>

\* C22: instantRunoff on [[A,B],[B,A],[C,A]] eliminates C in the first
\* round and returns A, the majority winner of the second round, with all
\* nSeats.
C22_RunoffExample ==
    RunoffExample
        => /\ pc = "round" => (pn = 0 /\ blacklisted = {}) \/ (pn = 1 /\ blacklisted = {"C"})
           /\ Done => /\ result = Return(<<Entry("A", cfg.nSeats)>>)
                      /\ pn = 1 /\ blacklisted = {"C"}

\* C22 witness: the example has returned A after one elimination.
C22_Witness ==
    /\ RunoffExample /\ Returned /\ cfg.nSeats = MaxSeats
    /\ blacklisted = {"C"} /\ Get(result.seats, "A") = MaxSeats

\* condorcet without contingency, given the cycle [[A,B,C],[B,C,A],[C,A,B]]
CycleExample ==
    /\ cfg.kind = "condorcet" /\ cfg.contingency = "null"
    /\ votes = << <<"A", "B", "C">>, <<"B", "C", "A">>, <<"C", "A", "B">> >>

\* C23: condorcet without contingency on the cycle
\* [[A,B,C],[B,C,A],[C,A,B]] throws Standoff and returns no winner.
C23_CycleStandoff ==
    (CycleExample /\ TopRan)
        => Done /\ result.kind = "Standoff" /\ result.seats = <<>> /\ calls = <<>>

\* C23 witness: the call on the cycle has ended in Standoff.
C23_Witness ==
    /\ CycleExample /\ Done /\ result.kind = "Standoff"
    /\ CondorcetWinners(votes) = {}
    /\ \A x \in {"A", "B", "C"} : \E y \in {"A", "B", "C"} : Beats(votes, y, x)

\* C24: on a Scores tally built by Scores.fromEntries or Scores.fromGrades,
\* get(c) for a candidate c not in the tally returns exactly ngrades zeros
\* and leaves the tally as it was: has(c) is still false, size and entries
\* are unchanged.
C24_GetAbsentIsZerosNoInsert ==
    (got # NoGet /\ ~ScoresHas(got.before, got.key))
        => /\ Len(got.value) = got.before.ngrades
           /\ \A g \in DOMAIN got.value : got.value[g] = 0
           /\ ~ScoresHas(scoresObj, got.key)
           /\ Len(scoresObj.entries) = Len(got.before.entries)
           /\ scoresObj.entries = got.before.entries
           /\ scoresObj.ngrades = got.before.ngrades

\* C24 witness: get of the absent candidate C on a tally of two candidates
\* with two grades has returned two zeros.
C24_Witness ==
    /\ got.key = "C" /\ got.before.made = "fromEntries"
    /\ Len(got.before.entries) = 2 /\ got.before.ngrades = 2
    /\ got.value = <<0, 0>> /\ Len(scoresObj.entries) = 2

\* C25: tallyScoreToScores called with no ballots returns an empty Scores
\* tally (size 0) and does not throw.
C25_EmptyBallotsEmptyTally ==
    (tallyInput.op = "tallyScoreToScores" /\ tallyInput.elements = <<>>
        /\ scoresObj # NotBuilt)
        => scoresObj.made = "fromEntries" /\ Len(scoresObj.entries) = 0

\* the award loop of proportionalFromRankIndexFunction is about to pop, or
\* has ended
InAwardLoop == callee.kind = "rankIndex" /\ pc = "loop"

\* parties lists every candidate of the tally once
PartiesIsPermutation ==
    /\ Len(parties) = Len(arg)
    /\ Range(parties) = Keys(arg)

\* parties is in ascending order of current score, so that the candidate
\* popped has a score >= that of every other candidate
PartiesAscending ==
    \A i, j \in 1..Len(parties) :
        i < j => GreaterEq(ScoreOf(rankIndexValues, parties[j]),
                           ScoreOf(rankIndexValues, parties[i]))

\* C26: in proportionalFromRankIndexFunction, before each pop the working
\* list parties is a permutation of all candidates of the tally in
\* ascending order of current score, so that each seat goes to a candidate
\* whose score is >= the score of every other candidate.
C26_AwardToHighest ==
    InAwardLoop => PartiesIsPermutation /\ PartiesAscending

\* the same on tallies with positive total support
AwardToHighestOnPositiveTotal ==
    (InAwardLoop /\ Total(arg) > 0) => PartiesIsPermutation /\ PartiesAscending

\* first preferences of party q among the ballots, the eliminated parties
\* skipped (0 for a party that heads no ballot)
FirstPreferences(q) == Get(FirstPlaces(arg, blacklisted, 1, <<>>), q)

\* a round of the instantRunoff factory that ends with an elimination
EliminationStep ==
    /\ callee.kind = "instantRunoff" /\ pc = "round"
    /\ blacklisted' # blacklisted

\* C27: in every instantRunoff round that ends without a majority winner,
\* the candidate eliminated has the fewest first preferences among all
\* candidates not yet eliminated, those with no first preference included.
C27_FewestEliminated ==
    [][EliminationStep
        => \A e \in blacklisted' \ blacklisted :
              \A q \in Range(Flat(arg, 1)) \ blacklisted :
                  FirstPreferences(e) <= FirstPreferences(q)]_vars

\* among the candidates that head a ballot, the one eliminated has the
\* fewest first preferences
FewestAmongBallotHeads ==
    [][EliminationStep
        => \A e \in blacklisted' \ blacklisted :
              /\ FirstPreferences(e) > 0
              /\ \A q \in Range(Flat(arg, 1)) \ blacklisted :
                    FirstPreferences(q) > 0 => FirstPreferences(e) <= FirstPreferences(q)]_vars

\* sum over the candidates i.. of the tally v of
\* |votes(c) * totalSeats / totalVotes - seats(c)|, times totalVotes
RECURSIVE DeviationFrom(_, _, _)
DeviationFrom(v, s, i) ==
    IF i > Len(v) THEN 0
    ELSE Abs(Total(s) * v[i].v - Get(s, v[i].p) * Total(v)) + DeviationFrom(v, s, i + 1)

\* the mean of these deviations over all candidates of the tally
MeanDeviation(v, s) == Fin(DeviationFrom(v, s, 1), Total(v) * Len(v))

\* C28: defaultMetric({votes, seats}) is the mean, over all candidates of
\* the votes tally (those without a seat included), of
\* |votes(c) * totalSeats / totalVotes - seats(c)|.
C28_MetricIsMeanOverCandidates ==
    (callee.kind = "boundedRankIndex" /\ pc = "scan" /\ Total(arg) > 0 /\ Len(seats) > 0)
        => defaultMetric(arg, seats) = MeanDeviation(arg, seats)

\* the attributions the frame claim names
LeavesTallyKinds ==
    {"addThreshold", "plurality", "superMajority", "hamilton", "rankIndex",
     "instantRunoff", "bordaCount", "condorcet"}

\* C29: whatever an attribution built by addThresholdToSimpleAttribution,
\* plurality, superMajority, hamilton, a rank-index method, instantRunoff,
\* bordaCount or condorcet has done so far, and whether its call is still
\* running, has returned or has thrown, the tally object the caller passed
\* holds the same candidates, counts and ballot order as when it was passed
C29_TallyLeftAsGiven ==
    cfg.kind \in LeavesTallyKinds => handed.votes = votes

\* bordaCount has returned on ballots one of which reads differently
\* backwards, and the caller's ballots are as they were
C29_Witness ==
    /\ cfg.kind = "bordaCount" /\ Returned
    /\ \E i \in DOMAIN votes : Reversed(votes[i]) # votes[i]
    /\ handed.votes = votes

\* the call that just returned is a rank-index method's, on a tally with
\* positive total, and the caller remembers what the same method built for
\* one seat fewer returned on that tally
LargerHouseReturned ==
    /\ cfg.kind = "rankIndex" /\ Returned /\ Total(votes) > 0
    /\ earlier # NoCall /\ earlier.votes = votes /\ earlier.result.kind = "return"

\* C30: for the same rank-index function and the same tally with positive
\* total, the allocation proportionalFromRankIndexFunction returns for
\* nSeats = n + 1 is the allocation it returns for nSeats = n plus exactly
\* one seat for one candidate, so no candidate has fewer seats
C30_HouseMonotone ==
    LargerHouseReturned
        => /\ \E p \in Keys(votes) :
                 result.seats = Increment(earlier.result.seats, p, 1)
           /\ \A q \in Keys(votes) :
                 Get(result.seats, q) >= Get(earlier.result.seats, q)
           /\ Total(earlier.result.seats) = cfg.nSeats - 1

\* the house grew from two seats to MaxSeats over three candidates with
\* unequal votes, and the new seat went to a candidate already seated
C30_Witness ==
    /\ LargerHouseReturned /\ cfg.nSeats = MaxSeats
    /\ Len(votes) = 3 /\ \E p, q \in Keys(votes) : Get(votes, p) > Get(votes, q)
    /\ \E p \in Keys(votes) :
          Get(earlier.result.seats, p) >= 1
          /\ Get(result.seats, p) = Get(earlier.result.seats, p) + 1

====
